---- MODULE Spec2Model ----
(***************************************************************************)
(* Model of the binning and aggregation engine of the binned chart visual  *)
(* (src/src/binnedChart.ts): BinnedChart.update, BinnedChart.renderChart.  *)
(*                                                                         *)
(* JavaScript numbers are binary floating point.  They are modelled as     *)
(* binary floating point numbers with MantBits significant bits, rounded   *)
(* to nearest (ties to even) after every operation, with NaN and the two   *)
(* infinities, and without exponent limits.  A number is the record        *)
(* [k, m, e]: k = "num" stands for m * 2^e with m odd (or m = 0, e = 0),   *)
(* k = "inf" for +Infinity (m = 1) and -Infinity (m = -1), k = "nan" for   *)
(* NaN.  The sign of zero is not modelled.                                 *)
(***************************************************************************)
EXTENDS Integers, Sequences, FiniteSets, TLC

\* Significant bits of a number (53 in the program).
MantBits == 10

\* Largest number of rows of a data view.
MaxRows == 3

----------------------------------------------------------------------------
(* Numbers *)

NaN == [k |-> "nan", m |-> 0, e |-> 0]
PInf == [k |-> "inf", m |-> 1, e |-> 0]
NInf == [k |-> "inf", m |-> -1, e |-> 0]

IsNaN(a) == a.k = "nan"
IsInf(a) == a.k = "inf"
IsFiniteNum(a) == a.k = "num"

Abs(n) == IF n < 0 THEN -n ELSE n
Sign(n) == IF n < 0 THEN -1 ELSE IF n > 0 THEN 1 ELSE 0

RECURSIVE BitLen(_)
BitLen(n) == IF n = 0 THEN 0 ELSE 1 + BitLen(n \div 2)

RECURSIVE Norm(_, _)
Norm(m, e) ==
    IF m = 0 THEN [k |-> "num", m |-> 0, e |-> 0]
    ELSE IF m % 2 = 0 THEN Norm(m \div 2, e + 1)
    ELSE [k |-> "num", m |-> m, e |-> e]

\* The number nearest to n * 2^e, ties to the even mantissa.
RoundInt(n, e) ==
    LET a == Abs(n)
        L == BitLen(a)
    IN  IF L <= MantBits THEN Norm(n, e)
        ELSE LET sh == L - MantBits
                 q == a \div (2 ^ sh)
                 r == a % (2 ^ sh)
                 half == 2 ^ (sh - 1)
                 up == r > half \/ (r = half /\ q % 2 = 1)
                 q2 == IF up THEN q + 1 ELSE q
             IN  Norm(Sign(n) * q2, e + sh)

FromInt(n) == RoundInt(n, 0)

\* Position of the leading bit: 2^(Top(a)-1) <= |a| < 2^Top(a).
Top(a) == a.e + BitLen(Abs(a.m))

FNeg(a) == IF IsNaN(a) THEN NaN ELSE [a EXCEPT !.m = -a.m]

FAdd(a, b) ==
    IF IsNaN(a) \/ IsNaN(b) THEN NaN
    ELSE IF IsInf(a) THEN (IF IsInf(b) /\ a.m # b.m THEN NaN ELSE a)
    ELSE IF IsInf(b) THEN b
    ELSE IF a.m = 0 THEN b
    ELSE IF b.m = 0 THEN a
    ELSE IF Top(a) - Top(b) > MantBits + 1 THEN a
    ELSE IF Top(b) - Top(a) > MantBits + 1 THEN b
    ELSE LET e == IF a.e < b.e THEN a.e ELSE b.e
         IN  RoundInt(a.m * (2 ^ (a.e - e)) + b.m * (2 ^ (b.e - e)), e)

FSub(a, b) == FAdd(a, FNeg(b))

FMul(a, b) ==
    IF IsNaN(a) \/ IsNaN(b) THEN NaN
    ELSE IF IsInf(a) \/ IsInf(b)
         THEN (IF Sign(a.m) * Sign(b.m) = 0 THEN NaN
               ELSE IF Sign(a.m) * Sign(b.m) > 0 THEN PInf ELSE NInf)
    ELSE RoundInt(a.m * b.m, a.e + b.e)

FDiv(a, b) ==
    IF IsNaN(a) \/ IsNaN(b) THEN NaN
    ELSE IF IsInf(a)
         THEN (IF IsInf(b) THEN NaN
               ELSE IF Sign(a.m) * (IF b.m < 0 THEN -1 ELSE 1) > 0 THEN PInf ELSE NInf)
    ELSE IF IsInf(b) THEN Norm(0, 0)
    ELSE IF b.m = 0
         THEN (IF a.m = 0 THEN NaN ELSE IF a.m > 0 THEN PInf ELSE NInf)
    ELSE IF a.m = 0 THEN Norm(0, 0)
    ELSE LET N == Abs(a.m)
             D == Abs(b.m)
             s == MantBits + 1 + BitLen(D) - BitLen(N)
             Q == (N * (2 ^ s)) \div D
             R == (N * (2 ^ s)) % D
             sticky == IF R # 0 THEN 1 ELSE 0
         IN  RoundInt(Sign(a.m) * Sign(b.m) * (2 * Q + sticky), a.e - b.e - s - 1)

\* Math.floor
FFloor(a) ==
    IF ~IsFiniteNum(a) THEN a
    ELSE IF a.e >= 0 THEN a
    ELSE IF -a.e > MantBits THEN (IF a.m < 0 THEN Norm(-1, 0) ELSE Norm(0, 0))
    ELSE Norm(a.m \div (2 ^ (-a.e)), 0)

\* Math.ceil
FCeil(a) == FNeg(FFloor(FNeg(a)))

\* a < b on finite numbers
FinLt(a, b) ==
    IF Sign(a.m) # Sign(b.m) THEN Sign(a.m) < Sign(b.m)
    ELSE IF a.m = 0 THEN FALSE
    ELSE IF Top(a) # Top(b)
         THEN (IF a.m > 0 THEN Top(a) < Top(b) ELSE Top(a) > Top(b))
    ELSE LET e == IF a.e < b.e THEN a.e ELSE b.e
         IN  a.m * (2 ^ (a.e - e)) < b.m * (2 ^ (b.e - e))

\* a < b
FLt(a, b) ==
    IF IsNaN(a) \/ IsNaN(b) THEN FALSE
    ELSE IF IsInf(a) THEN a.m < 0 /\ ~(IsInf(b) /\ b.m < 0)
    ELSE IF IsInf(b) THEN b.m > 0
    ELSE FinLt(a, b)

\* a === b
FEq(a, b) == ~IsNaN(a) /\ ~IsNaN(b) /\ a = b

\* a <= b
FLe(a, b) == FLt(a, b) \/ FEq(a, b)

Zero == FromInt(0)
One == FromInt(1)

----------------------------------------------------------------------------
(* Values that are not numbers, and conversions *)

\* null / undefined
Null == [k |-> "null", m |-> 0, e |-> 0]

\* typeof v === 'number'
IsNumber(v) == v.k # "null"

\* unary plus: +null is 0
ToNum(v) == IF IsNumber(v) THEN v ELSE Zero

\* The integer an integral finite number stands for.
ToInt(a) == a.m * (2 ^ a.e)

----------------------------------------------------------------------------
(* d3-array *)

\* d3.sum(values): adds, left to right, every value that is not NaN or 0.
RECURSIVE SumFrom(_, _, _)
SumFrom(vals, i, acc) ==
    IF i > Len(vals) THEN acc
    ELSE LET v == ToNum(vals[i])
         IN  SumFrom(vals, i + 1, IF IsNaN(v) \/ v = Zero THEN acc ELSE FAdd(acc, v))

d3sum(vals) == SumFrom(vals, 1, Zero)

\* d3.min(values): the least value that is a number and not NaN; Null when
\* there is none.
RECURSIVE MinFrom(_, _, _)
MinFrom(vals, i, acc) ==
    IF i > Len(vals) THEN acc
    ELSE LET v == vals[i]
             take == IsNumber(v) /\ ~IsNaN(v) /\ (~IsNumber(acc) \/ FLt(v, acc))
         IN  MinFrom(vals, i + 1, IF take THEN v ELSE acc)

d3min(vals) == MinFrom(vals, 1, Null)

\* d3.max(values)
RECURSIVE MaxFrom(_, _, _)
MaxFrom(vals, i, acc) ==
    IF i > Len(vals) THEN acc
    ELSE LET v == vals[i]
             take == IsNumber(v) /\ ~IsNaN(v) /\ (~IsNumber(acc) \/ FLt(acc, v))
         IN  MaxFrom(vals, i + 1, IF take THEN v ELSE acc)

d3max(vals) == MaxFrom(vals, 1, Null)

\* d3.variance(values) by Welford's update over the values that are numbers
\* and not NaN; Null (undefined) when there are fewer than two.
RECURSIVE VarianceFrom(_, _, _, _, _)
VarianceFrom(vals, i, count, mean, sum) ==
    IF i > Len(vals)
    THEN (IF count > 1 THEN FDiv(sum, FromInt(count - 1)) ELSE Null)
    ELSE IF ~IsNumber(vals[i]) \/ IsNaN(vals[i])
    THEN VarianceFrom(vals, i + 1, count, mean, sum)
    ELSE LET delta == FSub(vals[i], mean)
             mean2 == FAdd(mean, FDiv(delta, FromInt(count + 1)))
         IN  VarianceFrom(vals, i + 1, count + 1, mean2,
                          FAdd(sum, FMul(delta, FSub(vals[i], mean2))))

d3variance(vals) == VarianceFrom(vals, 1, 0, Zero, Zero)

\* !d3.deviation(values): the deviation, the square root of the variance, is
\* undefined, NaN or 0.
NoDeviation(variance) ==
    \/ ~IsNumber(variance)
    \/ IsNaN(variance)
    \/ variance = Zero
    \/ (IsFiniteNum(variance) /\ variance.m < 0)

\* d3.range(start, stop, step):
\* n = Math.max(0, Math.ceil((stop - start) / step)) | 0 values start + i * step.
RangeLen(start, stop, step) ==
    LET c == FCeil(FDiv(FSub(stop, start), step))
    IN  IF ~IsFiniteNum(c) THEN 0
        ELSE IF ToInt(c) < 0 THEN 0 ELSE ToInt(c)

d3range(start, stop, step) ==
    [i \in 1..RangeLen(start, stop, step) |-> FAdd(start, FMul(FromInt(i - 1), step))]

RECURSIVE bisectLeft(_, _, _, _)
bisectLeft(tz, x, lo, hi) ==
    IF lo < hi
    THEN LET mid == (lo + hi) \div 2
         IN  IF FLt(tz[mid + 1], x)
             THEN bisectLeft(tz, x, mid + 1, hi)
             ELSE bisectLeft(tz, x, lo, mid)
    ELSE lo

\* d3.bisectRight(tz, x, lo, hi) on the 0-based positions lo..hi of tz.
RECURSIVE bisectRight(_, _, _, _)
bisectRight(tz, x, lo, hi) ==
    IF lo < hi
    THEN LET mid == (lo + hi) \div 2
         IN  IF FLe(tz[mid + 1], x)
             THEN bisectRight(tz, x, mid + 1, hi)
             ELSE bisectRight(tz, x, lo, mid)
    ELSE lo

DropNone(tz, x0, a) == a

\* Number of leading thresholds with tz[a] <= x0 (d3.bin drops them).
RECURSIVE DropLow(_, _, _)
DropLow(tz, x0, a) ==
    IF a < Len(tz) /\ FLe(tz[a + 1], x0) THEN DropLow(tz, x0, a + 1) ELSE a

\* Position after the last threshold kept: trailing ones with tz[b-1] > x1
\* are dropped.
RECURSIVE DropHigh(_, _, _)
DropHigh(tz, x1, b) ==
    IF b >= 1 /\ FLt(x1, tz[b]) THEN DropHigh(tz, x1, b - 1) ELSE b

\* d3.bin().value(d => d.binValue).domain([x0, x1]).thresholds(thresholds)(data):
\* the bins as records [x0, x1, members], members being positions in data.
RECURSIVE AssignFrom(_, _, _, _, _, _)
AssignFrom(data, i, x0, x1, tz, bins) ==
    IF i > Len(data) THEN bins
    ELSE LET x == data[i].binValue
             inside == IsNumber(x) /\ FLe(x0, x) /\ FLe(x, x1)
             j == bisectRight(tz, x, 0, Len(tz)) + 1
         IN  AssignFrom(data, i + 1, x0, x1, tz,
                        IF inside
                        THEN [bins EXCEPT ![j].members = Append(@, i)]
                        ELSE bins)

d3bin(data, x0, x1, thresholds) ==
    LET a == DropLow(thresholds, x0, 0)
        b == DropHigh(thresholds, x1, Len(thresholds))
        tz == IF b > a THEN SubSeq(thresholds, a + 1, b) ELSE << >>
        m == Len(tz)
        empty == [i \in 1..(m + 1) |->
                    [x0 |-> IF i > 1 THEN tz[i - 1] ELSE x0,
                     x1 |-> IF i <= m THEN tz[i] ELSE x1,
                     members |-> << >>]]
    IN  AssignFrom(data, 1, x0, x1, tz, empty)

----------------------------------------------------------------------------
(* BinnedChart.renderChart *)

MAX_BINS == 1000
DEFAULT_FALLBACK_BINS == 10

\* The rows kept for binning: binValue and measureValue are numbers.  The
\* selection id of a row is built from its position in the category column.
RECURSIVE PreBinnedFrom(_, _)
PreBinnedFrom(dataView, i) ==
    IF i > Len(dataView.rows) THEN << >>
    ELSE LET r == dataView.rows[i]
             rest == PreBinnedFrom(dataView, i + 1)
         IN  IF IsNumber(r.binValue) /\ IsNumber(r.measureValue)
             THEN << [binValue |-> r.binValue, measureValue |-> r.measureValue,
                      countValue |-> r.countValue,
                      tooltipValue |-> IF dataView.hasTooltips THEN r.tooltipValue ELSE Null,
                      selectionId |-> i] >> \o rest
             ELSE rest

preBinnedData(dataView) == PreBinnedFrom(dataView, 1)

Column(data, f) == [i \in 1..Len(data) |-> data[i][f]]

\* Math.max(1, Math.ceil(Math.log2(N) + 1)).  Math.log2 is exact on powers
\* of two and is taken not to round across an integer elsewhere.
Sturges(N) ==
    IF IsNaN(N) THEN NaN
    ELSE IF IsInf(N) THEN (IF N.m > 0 THEN PInf ELSE NaN)
    ELSE IF N.m < 0 THEN NaN
    ELSE IF N.m = 0 THEN One
    ELSE LET c == IF N.m = 1 THEN N.e + 1 ELSE Top(N) + 1
         IN  IF c < 1 THEN One ELSE FromInt(c)

\* typeof userBinSize === 'number' && isFinite(userBinSize) && userBinSize > 0
IsUserBinSizeValid(userBinSize) ==
    IsNumber(userBinSize) /\ IsFiniteNum(userBinSize) /\ FLt(Zero, userBinSize)

FallbackWarningAlways(isUserBinSizeValid) == TRUE

\* The warning icon is shown on fallback only if the user provided a valid
\* number that had to be overridden.
FallbackWarning(isUserBinSizeValid) == isUserBinSizeValid

SampleSizeRows(data) == FromInt(Len(data))

\* N of Sturges' formula: the sum of the frequency measure.
SampleSize(data) == d3sum(Column(data, "countValue"))

\* Step 2: numBins and binSize by mode, and whether the warning icon is shown.
BinPlan(data, settings, domainRange) ==
    IF settings.binMode = "byCount"
    THEN LET n == IF FLt(settings.numberOfBins, One) THEN One ELSE settings.numberOfBins
         IN  [numBins |-> n, binSize |-> FDiv(domainRange, n), warning |-> FALSE]
    ELSE IF settings.binMode = "bySize"
    THEN LET userBinSize == settings.binSize
             isUserBinSizeValid == IsUserBinSizeValid(userBinSize)
             estimatedBins == IF isUserBinSizeValid THEN FDiv(domainRange, userBinSize) ELSE PInf
         IN  IF isUserBinSizeValid /\ FLe(estimatedBins, FromInt(MAX_BINS))
             THEN [numBins |-> FCeil(estimatedBins), binSize |-> userBinSize, warning |-> FALSE]
             ELSE [numBins |-> FromInt(DEFAULT_FALLBACK_BINS),
                   binSize |-> FDiv(domainRange, FromInt(DEFAULT_FALLBACK_BINS)),
                   warning |-> FallbackWarning(isUserBinSizeValid)]
    ELSE \* "automatic", and the default case for any other mode
         LET N == SampleSize(data)
             n == Sturges(N)
         IN  [numBins |-> n, binSize |-> FDiv(domainRange, n), warning |-> FALSE]

WeightedTermUnweighted(value, countValue) == ToNum(value)

\* d.measureValue * d.countValue, a term of weightedSum
WeightedTerm(value, countValue) == FMul(ToNum(value), ToNum(countValue))

WeightedAvgNonZero(weightedSum, totalCount) ==
    IF ~FEq(totalCount, Zero) THEN FDiv(weightedSum, totalCount) ELSE Zero

\* totalCount > 0 ? weightedSum / totalCount : 0
WeightedAvg(weightedSum, totalCount) ==
    IF FLt(Zero, totalCount) THEN FDiv(weightedSum, totalCount) ELSE Zero

NullishKept(v) == v

\* v ?? 0
NullishZero(v) == IF IsNumber(v) THEN v ELSE Zero

\* The value of a bin under a calculation; field is "measureValue" or
\* "tooltipValue".
Aggregate(data, members, calc, field) ==
    LET vals == [i \in 1..Len(members) |-> data[members[i]][field]]
        counts == [i \in 1..Len(members) |-> data[members[i]].countValue]
    IN  IF calc = "weightedAvg"
        THEN LET weightedSum == d3sum([i \in 1..Len(members) |-> WeightedTerm(vals[i], counts[i])])
                 totalCount == d3sum(counts)
             IN  WeightedAvg(weightedSum, totalCount)
        ELSE IF calc = "minimum"
        THEN NullishZero(d3min(vals))
        ELSE IF calc = "maximum"
        THEN NullishZero(d3max(vals))
        ELSE d3sum(vals)

RecomputedBinSizeAlways(binMode, p, alignedMin, alignedMax) ==
    FDiv(FSub(alignedMax, alignedMin), p.numBins)

\* Step 3: binSize is recalculated from the aligned domain for 'byCount' and
\* 'automatic' only.
RecomputedBinSize(binMode, p, alignedMin, alignedMax) ==
    IF binMode \in {"byCount", "automatic"}
    THEN FDiv(FSub(alignedMax, alignedMin), p.numBins)
    ELSE p.binSize

\* renderChart is a sequence of steps; each takes the locals computed so far
\* (a record) and adds its own.

\* Step 1: the rows kept and the true domain.
DataDomain(dataView, settings) ==
    LET data == preBinnedData(dataView)
    IN  [data |-> data, hasTooltips |-> dataView.hasTooltips, settings |-> settings,
         minDomain |-> d3min(Column(data, "binValue")),
         maxDomain |-> d3max(Column(data, "binValue"))]

\* Step 2: domainRange and the switch on binMode.
Planned(s) ==
    [p |-> BinPlan(s.data, s.settings, FSub(s.maxDomain, s.minDomain))] @@ s

AlignedNowhere(s) ==
    [alignedMin |-> s.minDomain, alignedMax |-> s.maxDomain] @@ s

\* Step 3: the domain aligned to multiples of binSize.
Aligned(s) ==
    [alignedMin |-> FMul(FFloor(FDiv(s.minDomain, s.p.binSize)), s.p.binSize),
     alignedMax |-> FMul(FCeil(FDiv(s.maxDomain, s.p.binSize)), s.p.binSize)] @@ s

Recomputed(s) ==
    [binSize |-> RecomputedBinSize(s.settings.binMode, s.p, s.alignedMin, s.alignedMax)] @@ s

\* Step 4: thresholds = d3.range(alignedMin, alignedMax, binSize).
Thresholds(s) ==
    [thresholds |-> d3range(s.alignedMin, s.alignedMax, s.binSize)] @@ s

\* The final boundary: the last threshold plus binSize.
Corrected(s) ==
    [alignedMaxCorrected |-> IF Len(s.thresholds) > 0
                             THEN FAdd(s.thresholds[Len(s.thresholds)], s.binSize)
                             ELSE FAdd(s.alignedMin, s.binSize)] @@ s

\* Step 5: the histogram over niceDomain = [alignedMin, alignedMaxCorrected].
Binned(s) ==
    [raw |-> d3bin(s.data, s.alignedMin, s.alignedMaxCorrected, s.thresholds)] @@ s

\* this.formattingSettings.bars.valuesCalculation.value
valueCalc(settings) == settings.valuesCalculation

tooltipCalcOfValue(settings) == settings.valuesCalculation

\* this.formattingSettings.bars.tooltipCalculation.value
tooltipCalc(settings) == settings.tooltipCalculation

\* bin.map(d => d.selectionId)
SelectionIdsOf(data, members) == [k \in 1..Len(members) |-> data[members[k]].selectionId]

\* The aggregation: the locals of renderChart (plan), the bins bound to the
\* bars, and the number of warning icons shown.  The members of a bin are
\* positions in preBinnedData.
Aggregated(s) ==
    [plan |-> [numBins |-> s.p.numBins, binSize |-> s.binSize,
               minDomain |-> s.minDomain, maxDomain |-> s.maxDomain,
               alignedMin |-> s.alignedMin, alignedMax |-> s.alignedMax,
               alignedMaxCorrected |-> s.alignedMaxCorrected],
     bins |-> [i \in 1..Len(s.raw) |->
                 [x0 |-> s.raw[i].x0, x1 |-> s.raw[i].x1, members |-> s.raw[i].members,
                  aggregatedValue |->
                      Aggregate(s.data, s.raw[i].members, valueCalc(s.settings), "measureValue"),
                  selectionIds |-> SelectionIdsOf(s.data, s.raw[i].members),
                  aggregatedTooltipValue |->
                      IF s.hasTooltips
                      THEN Aggregate(s.data, s.raw[i].members, tooltipCalc(s.settings), "tooltipValue")
                      ELSE Null]],
     warnings |-> IF s.p.warning THEN 1 ELSE 0]

renderChart(dataView, settings) ==
    Aggregated(Binned(Corrected(Thresholds(Recomputed(Aligned(Planned(
        DataDomain(dataView, settings))))))))

----------------------------------------------------------------------------
(* BinnedChart.renderNormalCurve, syncSelectionState, state determination *)

\* The midpoint of a bin, (bin.x0 + bin.x1) / 2: the place of its marker.
Midpoint(bin) == FDiv(FAdd(bin.x0, bin.x1), FromInt(2))

\* renderNormalCurve(data, bins, ...): whether the curve path is drawn and
\* the markers in the markers container afterwards.
renderNormalCurve(data, bs) ==
    IF NoDeviation(d3variance(Column(data, "binValue")))
    THEN [curve |-> FALSE, markers |-> << >>]
    ELSE [curve |-> TRUE, markers |-> [i \in 1..Len(bs) |-> Midpoint(bs[i])]]

\* The end of renderChart: the curve is rendered if showNormalCurve is on,
\* otherwise the path of the curve is removed.
CurveToggle(showNormalCurve, data, bs, oldMarkers) ==
    IF showNormalCurve
    THEN renderNormalCurve(data, bs)
    ELSE [curve |-> FALSE, markers |-> oldMarkers]

\* BinnedChart.Config.solidOpacity and transparentOpacity, in tenths.
solidOpacity == 10
transparentOpacity == 4

\* The ids of a sequence of selection ids.
IdSet(ids) == {ids[k] : k \in 1..Len(ids)}

\* The fill-opacity syncSelectionState gives the bar of a bin.
SyncedOpacity(bin, selectionIds) ==
    IF selectionIds # {}
    THEN (IF IdSet(bin.selectionIds) \cap selectionIds # {}
          THEN solidOpacity ELSE transparentOpacity)
    ELSE solidOpacity

\* syncSelectionState(selection, selectionIds) over the bars of bs.
syncSelectionState(bs, selectionIds) ==
    [i \in 1..Len(bs) |-> SyncedOpacity(bs[i], selectionIds)]

currentStateValueFirst(dataView) ==
    LET hasCategories == dataView.hasCategories
        hasValues == dataView.hasValues
        hasCountMeasure == dataView.hasCountMeasure
        isCategoryNumeric == hasCategories /\ dataView.isCategoryNumeric
    IN  IF ~hasCategories /\ ~hasValues /\ ~hasCountMeasure
        THEN [state |-> "Landing", message |-> ""]
        ELSE IF ~hasValues
        THEN [state |-> "Error", message |-> "'Value' must be a numeric measure."]
        ELSE IF ~hasCategories \/ ~isCategoryNumeric
        THEN [state |-> "Error", message |-> "'Field to bin' must be a numeric field."]
        ELSE IF ~hasCountMeasure
        THEN [state |-> "Error", message |-> "'Frequency measure' must be a numeric measure."]
        ELSE [state |-> "Chart", message |-> ""]

\* State determination of update: currentState and validationMessage.
currentState(dataView) ==
    LET hasCategories == dataView.hasCategories
        hasValues == dataView.hasValues
        hasCountMeasure == dataView.hasCountMeasure
        isCategoryNumeric == hasCategories /\ dataView.isCategoryNumeric
    IN  IF ~hasCategories /\ ~hasValues /\ ~hasCountMeasure
        THEN [state |-> "Landing", message |-> ""]
        ELSE IF ~hasCategories \/ ~isCategoryNumeric
        THEN [state |-> "Error", message |-> "'Field to bin' must be a numeric field."]
        ELSE IF ~hasValues
        THEN [state |-> "Error", message |-> "'Value' must be a numeric measure."]
        ELSE IF ~hasCountMeasure
        THEN [state |-> "Error", message |-> "'Frequency measure' must be a numeric measure."]
        ELSE [state |-> "Chart", message |-> ""]

NotifiedAtStart(calls) == <<"renderingStarted">> \o calls

\* update: this.events.renderingStarted(options) first,
\* this.events.renderingFinished(options) last, the calls of the state in
\* between.
Notified(calls) == <<"renderingStarted">> \o calls \o <<"renderingFinished">>

\* The calls of the rendering path of a state; renderChart returns after
\* clearVisual when no row has numbers.
Calls(state, noRows) ==
    IF state = "Landing" THEN <<"clearVisual", "showLandingPage">>
    ELSE IF state = "Error" THEN <<"hideLandingPage", "clearVisual", "displayValidationError">>
    ELSE IF noRows THEN <<"hideLandingPage", "renderChart", "clearVisual">>
    ELSE <<"hideLandingPage", "renderChart", "renderBars", "setupInteractivity">>

showLandingPageAgain(on, pages) == [isLandingPageOn |-> TRUE, landingPages |-> pages + 1]

\* showLandingPage: the element is created and attached unless
\* isLandingPageOn.
showLandingPage(on, pages) ==
    IF ~on THEN [isLandingPageOn |-> TRUE, landingPages |-> pages + 1]
    ELSE [isLandingPageOn |-> on, landingPages |-> pages]

\* hideLandingPage: this.LandingPage is removed if isLandingPageOn.
hideLandingPage(on, pages) ==
    IF on THEN [isLandingPageOn |-> FALSE, landingPages |-> pages - 1]
    ELSE [isLandingPageOn |-> on, landingPages |-> pages]

RemovedNone(texts) == texts

\* this.svg.select(".validation-error").remove(): the first of the texts is
\* removed.
RemovedFirst(texts) == IF texts = << >> THEN texts ELSE Tail(texts)

\* displayValidationError(message): a text is appended to the svg.
displayValidationError(texts, message) == Append(texts, message)

\* The validation-error texts after the rendering path of state st: Landing
\* and Error clear the visual, Error then displays its message; Chart removes
\* the text, and clears the visual when no row has numbers.
ValidationErrorsAfter(texts, st, noRows) ==
    IF st.state = "Landing" THEN RemovedFirst(texts)
    ELSE IF st.state = "Error" THEN displayValidationError(RemovedFirst(texts), st.message)
    ELSE IF noRows THEN RemovedFirst(RemovedFirst(texts))
    ELSE RemovedFirst(texts)

populatedOnce(formattingSettings, settings) ==
    IF formattingSettings = [populated |-> FALSE] THEN settings ELSE formattingSettings

\* formattingSettingsService.populateFormattingSettingsModel(BinnedChartSettingsModel,
\* dataView): a new settings model with the values of the data view, which
\* replaces this.formattingSettings.
populateFormattingSettingsModel(formattingSettings, settings) == settings

----------------------------------------------------------------------------
(* Inputs: the data views and settings the host can pass to update *)

Row(b, v, c, t) ==
    [binValue |-> FromInt(b), measureValue |-> FromInt(v),
     countValue |-> FromInt(c), tooltipValue |-> FromInt(t)]

\* The rows a data view is made of (field to bin, value, frequency, tooltip).
RowPool ==
    << Row(-3, 4, -1, 5), Row(0, 7, 0, 3), Row(1, 10, 1, 2),
       Row(5, 20, 1, 4), Row(5, 3, 2, 7), Row(6, 8, 3, 0), Row(9, 30, 1, 6),
       Row(11, 5, 2, 1), Row(4096, 1, 1, 1) >>

RECURSIVE Ascending(_)
Ascending(S) ==
    IF S = {} THEN << >>
    ELSE LET x == CHOOSE y \in S : \A z \in S : y <= z
         IN  << RowPool[x] >> \o Ascending(S \ {x})

RowSeqs ==
    { Ascending(S) : S \in { T \in SUBSET (1..Len(RowPool)) :
                               Cardinality(T) >= 1 /\ Cardinality(T) <= MaxRows } }

ChartViews ==
    [hasCategories : {TRUE}, isCategoryNumeric : {TRUE}, hasValues : {TRUE},
     hasCountMeasure : {TRUE}, hasTooltips : BOOLEAN, rows : RowSeqs]

OtherViews ==
    { v \in [hasCategories : BOOLEAN, isCategoryNumeric : BOOLEAN, hasValues : BOOLEAN,
             hasCountMeasure : BOOLEAN, hasTooltips : {FALSE}, rows : {<< >>}] :
        /\ (v.isCategoryNumeric => v.hasCategories)
        /\ ~(v.hasCategories /\ v.isCategoryNumeric /\ v.hasValues /\ v.hasCountMeasure) }

\* Bin mode with its parameter; the parameters of the other modes keep the
\* defaults of BinsSettingsCard.
BinSettings ==
    [binMode : {"automatic", "other"}, numberOfBins : {FromInt(10)}, binSize : {FromInt(50)}]
    \cup [binMode : {"byCount"}, numberOfBins : {FromInt(0), FromInt(2), FromInt(7)},
          binSize : {FromInt(50)}]
    \cup [binMode : {"bySize"}, numberOfBins : {FromInt(10)},
          binSize : {FromInt(2), FDiv(FromInt(23), FromInt(10)), Zero, FromInt(-2), PInf, Null}]

\* Value and tooltip calculations that are chosen together.
Calculations ==
    { <<"sum", "sum">>, <<"weightedAvg", "weightedAvg">>, <<"minimum", "maximum">>,
      <<"maximum", "minimum">> }

AllSettings ==
    { [binMode |-> b.binMode, numberOfBins |-> b.numberOfBins, binSize |-> b.binSize,
       valuesCalculation |-> c[1], tooltipCalculation |-> c[2],
       showNormalCurve |-> FALSE] :
        b \in BinSettings, c \in Calculations }

DefaultSettings ==
    [binMode |-> "byCount", numberOfBins |-> FromInt(10), binSize |-> FromInt(50),
     valuesCalculation |-> "sum", tooltipCalculation |-> "sum", showNormalCurve |-> FALSE]

\* With no tooltip field the tooltip calculation is not used: one calculation
\* pair per value calculation is enough.
UpdateOptions ==
    { [dataView |-> v, settings |-> s] : v \in { w \in ChartViews : w.hasTooltips }, s \in AllSettings }
    \cup { [dataView |-> v, settings |-> s] :
             v \in { w \in ChartViews : ~w.hasTooltips },
             s \in { t \in AllSettings : t.tooltipCalculation = "sum" } }
    \cup { [dataView |-> v, settings |-> DefaultSettings] : v \in OtherViews }

\* The data views of a session of updates: no row, one observation, two
\* observations with the same field to bin, three distinct observations; one
\* Landing view and the Error views.
SessionRows ==
    { << >>, << RowPool[4] >>, << RowPool[4], RowPool[5] >>,
      << RowPool[3], RowPool[4], RowPool[7] >> }

SessionViews ==
    [hasCategories : {TRUE}, isCategoryNumeric : {TRUE}, hasValues : {TRUE},
     hasCountMeasure : {TRUE}, hasTooltips : BOOLEAN, rows : SessionRows]

\* The settings of a session: the reducers vary separately, and the curve is
\* requested or not.
SessionSettings ==
    { [binMode |-> b[1], numberOfBins |-> b[2], binSize |-> b[3],
       valuesCalculation |-> c, tooltipCalculation |-> t, showNormalCurve |-> n] :
        b \in { <<"byCount", FromInt(2), FromInt(50)>>, <<"bySize", FromInt(10), FromInt(2)>> },
        c \in {"sum", "minimum"}, t \in {"sum", "maximum"}, n \in BOOLEAN }

SessionOptions ==
    { [dataView |-> v, settings |-> s] : v \in SessionViews, s \in SessionSettings }
    \cup { [dataView |-> v, settings |-> DefaultSettings] : v \in OtherViews }

\* The options of a session with a user: three observations in two or in
\* five bars, one observation in one bar, and a view without roles.
InteractionOptions ==
    { [dataView |-> [hasCategories |-> TRUE, isCategoryNumeric |-> TRUE, hasValues |-> TRUE,
                     hasCountMeasure |-> TRUE, hasTooltips |-> FALSE, rows |-> r[1]],
       settings |-> [DefaultSettings EXCEPT !.binMode = r[2], !.numberOfBins = FromInt(2),
                                            !.binSize = FromInt(2)]] :
        r \in { << << RowPool[3], RowPool[4], RowPool[7] >>, "byCount" >>,
                << << RowPool[3], RowPool[4], RowPool[7] >>, "bySize" >>,
                << << RowPool[4] >>, "byCount" >> } }
    \cup { [dataView |-> v, settings |-> DefaultSettings] :
              v \in { w \in OtherViews : ~w.hasCategories /\ ~w.hasValues /\ ~w.hasCountMeasure } }

----------------------------------------------------------------------------
(* The visual *)

VARIABLES
    options,            \* the VisualUpdateOptions the host passes to update
    visualState,        \* "Constructed" before the first update, then the VisualState
    validationMessage,  \* the message displayed in the Error state
    bins,               \* the bins bound to the bars
    plan,               \* the locals of the last renderChart
    warnings,           \* warning icons shown by the last update
    formattingSettings, \* this.formattingSettings
    svgHidden,          \* the svg has the class "hidden"
    isLandingPageOn,    \* this.isLandingPageOn
    curve,              \* the path of the normal curve has a "d" attribute
    markers,            \* the midpoints of the circles in curveMarkersContainer
    opacity,            \* the fill-opacity of each bar
    handlers,           \* element.onkeydown and the click handler of the svg are set
    focus,              \* the element with the keyboard focus
    selection,          \* the selection ids of the selection manager
    pending,            \* promises of the selection manager that have not resolved
    allowInteractions,  \* host.hostCapabilities.allowInteractions
    events,             \* what the last update called, with its notifications of the host
    landingPages,       \* landing-page elements attached to the root element
    validationErrors,   \* the messages of the validation-error texts in the svg
    formattingModel     \* what the last call of getFormattingModel returned

vars == <<options, visualState, validationMessage, bins, plan, warnings,
          formattingSettings, svgHidden, isLandingPageOn, curve, markers, opacity,
          handlers, focus, selection, pending, allowInteractions,
          events, landingPages, validationErrors, formattingModel>>

NoPlan == [numBins |-> Null, binSize |-> Null, minDomain |-> Null, maxDomain |-> Null,
           alignedMin |-> Null, alignedMax |-> Null, alignedMaxCorrected |-> Null]

\* this.formattingSettings before renderChart has populated it.
Unpopulated == [populated |-> FALSE]

\* The focus is on the root element of the visual (Root), on bar i (i >= 1,
\* the bar of index i - 1), or on no element of the visual (Elsewhere).
Root == 0
Elsewhere == -1

\* The visual after construction, for a host that will pass one of the given
\* options and has one of the given capabilities.
Constructed(someOptions, capabilities) ==
    /\ options \in someOptions
    /\ allowInteractions \in capabilities
    /\ visualState = "Constructed"
    /\ validationMessage = ""
    /\ bins = << >>
    /\ plan = NoPlan
    /\ warnings = 0
    /\ formattingSettings = Unpopulated
    /\ svgHidden = FALSE
    /\ isLandingPageOn = FALSE
    /\ curve = FALSE
    /\ markers = << >>
    /\ opacity = << >>
    /\ handlers = FALSE
    /\ focus = Elsewhere
    /\ selection = {}
    /\ pending = << >>
    /\ events = << >>
    /\ landingPages = 0
    /\ validationErrors = << >>
    /\ formattingModel = "none"

Init == Constructed(UpdateOptions, {TRUE})

\* clearVisual: the focus goes to the root element if it is inside the svg,
\* and bars, curve and markers are removed.  The bars of the closures of
\* pending promises are no longer displayed.
clearVisual ==
    /\ focus' = IF focus >= 1 THEN Root ELSE focus
    /\ bins' = << >>
    /\ plan' = NoPlan
    /\ warnings' = 0
    /\ opacity' = << >>
    /\ curve' = FALSE
    /\ markers' = << >>
    /\ pending' = [k \in 1..Len(pending) |-> [pending[k] EXCEPT !.bars = {}]]
    /\ UNCHANGED handlers

\* What renderChart leaves on the chart: renderBars with setupInteractivity,
\* and the curve.  A bar that is removed loses the focus.
Bind(r, data, settings) ==
    LET c == CurveToggle(settings.showNormalCurve, data, r.bins, markers)
    IN  /\ bins' = r.bins
        /\ plan' = r.plan
        /\ warnings' = r.warnings
        /\ opacity' = syncSelectionState(r.bins, selection)
        /\ handlers' = TRUE
        /\ focus' = IF focus > Len(r.bins) THEN Elsewhere ELSE focus
        /\ pending' = [k \in 1..Len(pending) |->
                          [pending[k] EXCEPT !.bars = @ \cap (1..Len(r.bins))]]
        /\ curve' = c.curve
        /\ markers' = c.markers

\* renderChart(dataView, ...) with its early return.
RenderChart(dataView, settings) ==
    IF Len(preBinnedData(dataView)) < 1
    THEN clearVisual
    ELSE Bind(renderChart(dataView, settings), preBinnedData(dataView), settings)

\* update(o): state determination, then the one rendering path, between
\* the two notifications of the host.
UpdateWith(o) ==
    LET st == currentState(o.dataView)
        noRows == Len(preBinnedData(o.dataView)) < 1
        page == IF st.state = "Landing"
                THEN showLandingPage(isLandingPageOn, landingPages)
                ELSE hideLandingPage(isLandingPageOn, landingPages)
    IN  /\ options' = o
        /\ visualState' = st.state
        /\ validationMessage' = st.message
        /\ events' = Notified(Calls(st.state, noRows))
        /\ svgHidden' = (st.state = "Landing")
        /\ isLandingPageOn' = page.isLandingPageOn
        /\ landingPages' = page.landingPages
        /\ validationErrors' = ValidationErrorsAfter(validationErrors, st, noRows)
        /\ IF st.state = "Chart"
           THEN /\ formattingSettings' =
                      populateFormattingSettingsModel(formattingSettings, o.settings)
                /\ RenderChart(o.dataView, formattingSettings')
           ELSE /\ clearVisual
                /\ UNCHANGED formattingSettings
        /\ UNCHANGED <<selection, allowInteractions, formattingModel>>

\* The host calls update with its options.
Update == UpdateWith(options)

Next == Update

Spec == Init /\ [][Next]_vars

----------------------------------------------------------------------------
(* A session: the host calls update again and again, with any options *)

SessionInit == Constructed(SessionOptions, {TRUE})

\* The host calls update with other options than those of the last update, or
\* the same.
HostUpdate == \E o \in SessionOptions : UpdateWith(o)

SessionNext == HostUpdate

Session == SessionInit /\ [][SessionNext]_vars

----------------------------------------------------------------------------
(* BinnedChart.setupInteractivity: the handlers of keyboard and mouse *)

\* Requests of the selection manager whose promise has not resolved, at most.
MaxPending == 1

Keys == {"Enter", " ", "ArrowRight", "ArrowLeft", "Escape"}

\* The selections selectionManager.select(ids, multiSelect) can leave in the
\* selection manager of the host: the ids are selected, alone or in addition
\* to the current selection, or ids that were selected are deselected.
SelectOutcomes(current, ids, multiSelect) ==
    IF multiSelect
    THEN {current \cup ids} \cup (IF ids # {} /\ ids \subseteq current THEN {current \ ids} ELSE {})
    ELSE {ids} \cup (IF ids # {} /\ ids = current THEN {{}} ELSE {})

\* selectionManager.select(d.selectionIds, event.ctrlKey).then(ids =>
\* syncSelectionState(allBars, ids)): the request, the ids the promise
\* resolves with, and the bars of allBars that are displayed.
SelectRequest(bin, ctrlKey, ids) ==
    [kind |-> "select", request |-> IdSet(bin.selectionIds), multi |-> ctrlKey,
     ids |-> ids, bars |-> 1..Len(bins)]

\* selectionManager.clear().then(() => allBars.style("fill-opacity", solidOpacity))
ClearRequest ==
    [kind |-> "clear", request |-> {}, multi |-> FALSE, ids |-> {}, bars |-> 1..Len(bins)]

\* The click handler of the svg, on the selection and the pending requests s.
SvgClicked(s) ==
    IF handlers /\ allowInteractions
    THEN [selection |-> {}, pending |-> Append(s.pending, ClearRequest)]
    ELSE s

\* The click handler of bar j, on the selection and the pending requests s.
BarClicked(s, j, ctrlKey, ids) ==
    IF allowInteractions
    THEN [selection |-> ids, pending |-> Append(s.pending, SelectRequest(bins[j], ctrlKey, ids))]
    ELSE s

PropagatesAlways(allowed) == TRUE

\* A click on a bar reaches the svg unless the handler of the bar calls
\* event.stopPropagation(), which it does when interactions are allowed.
Propagates(allowed) == ~allowed

nextIndexNoWrap(currentBarIndex, length) == currentBarIndex + 1

\* const nextIndex = (currentBarIndex + 1) % bins.length
nextIndex(currentBarIndex, length) == (currentBarIndex + 1) % length

\* const prevIndex = (currentBarIndex - 1 + bins.length) % bins.length
prevIndex(currentBarIndex, length) == (currentBarIndex - 1 + length) % length

\* element.onkeydown, on the focus f: Enter focuses the first bar.
ElementKeyDowned(f, key) ==
    IF ~handlers \/ ~allowInteractions \/ key # "Enter" THEN f
    ELSE IF bins # << >> THEN 1 ELSE f

\* The user moves the focus, with the pointer or the Tab key, to the root
\* element, to a bar, or out of the visual.
Focus(target) ==
    /\ target \in {Root, Elsewhere} \cup 1..Len(bins)
    /\ target # focus
    /\ focus' = target
    /\ UNCHANGED <<events, landingPages, validationErrors, formattingModel>>
    /\ UNCHANGED <<options, visualState, validationMessage, bins, plan, warnings,
                   formattingSettings, svgHidden, isLandingPageOn, curve, markers, opacity,
                   handlers, selection, pending, allowInteractions>>

\* A key goes down while the root element has the focus.
ElementKeyDown(key) ==
    /\ focus = Root
    /\ focus' = ElementKeyDowned(focus, key)
    /\ UNCHANGED <<events, landingPages, validationErrors, formattingModel>>
    /\ UNCHANGED <<options, visualState, validationMessage, bins, plan, warnings,
                   formattingSettings, svgHidden, isLandingPageOn, curve, markers, opacity,
                   handlers, selection, pending, allowInteractions>>

\* A key goes down while a bar has the focus: the keydown handler of the bar,
\* then, as the event bubbles, element.onkeydown.
BarKeyDownUpTo(limit, key, ctrlKey) ==
    /\ focus >= 1
    /\ IF ~allowInteractions
       THEN UNCHANGED <<focus, selection, pending>>
       ELSE IF key \in {"Enter", " "}
       THEN \E ids \in SelectOutcomes(selection, IdSet(bins[focus].selectionIds), ctrlKey) :
                /\ Len(pending) < limit
                /\ selection' = ids
                /\ pending' = Append(pending, SelectRequest(bins[focus], ctrlKey, ids))
                /\ focus' = ElementKeyDowned(focus, key)
       ELSE IF key = "ArrowRight"
       THEN focus' = nextIndex(focus - 1, Len(bins)) + 1 /\ UNCHANGED <<selection, pending>>
       ELSE IF key = "ArrowLeft"
       THEN focus' = prevIndex(focus - 1, Len(bins)) + 1 /\ UNCHANGED <<selection, pending>>
       ELSE IF key = "Escape"
       THEN selection' = {} /\ focus' = Root /\ UNCHANGED pending
       ELSE UNCHANGED <<focus, selection, pending>>
    /\ UNCHANGED <<events, landingPages, validationErrors, formattingModel>>
    /\ UNCHANGED <<options, visualState, validationMessage, bins, plan, warnings,
                   formattingSettings, svgHidden, isLandingPageOn, curve, markers, opacity,
                   handlers, allowInteractions>>

BarKeyDown(key, ctrlKey) == BarKeyDownUpTo(MaxPending, key, ctrlKey)

\* The user clicks bar j: the click handler of the bar, then, if the event
\* propagates, that of the svg. At most limit requests are pending.
BarClickUpTo(limit, j, ctrlKey) ==
    /\ j \in 1..Len(bins)
    /\ Len(pending) < limit
    /\ \E ids \in SelectOutcomes(selection, IdSet(bins[j].selectionIds), ctrlKey) :
           LET bar == BarClicked([selection |-> selection, pending |-> pending], j, ctrlKey, ids)
               svg == IF Propagates(allowInteractions) THEN SvgClicked(bar) ELSE bar
           IN  selection' = svg.selection /\ pending' = svg.pending
    /\ UNCHANGED <<events, landingPages, validationErrors, formattingModel>>
    /\ UNCHANGED <<options, visualState, validationMessage, bins, plan, warnings,
                   formattingSettings, svgHidden, isLandingPageOn, curve, markers, opacity,
                   handlers, focus, allowInteractions>>

BarClick(j, ctrlKey) == BarClickUpTo(MaxPending, j, ctrlKey)

\* The user clicks the background of the chart. At most limit requests are
\* pending.
SvgClickUpTo(limit) ==
    /\ ~svgHidden
    /\ Len(pending) < limit
    /\ LET svg == SvgClicked([selection |-> selection, pending |-> pending])
       IN  selection' = svg.selection /\ pending' = svg.pending
    /\ UNCHANGED <<events, landingPages, validationErrors, formattingModel>>
    /\ UNCHANGED <<options, visualState, validationMessage, bins, plan, warnings,
                   formattingSettings, svgHidden, isLandingPageOn, curve, markers, opacity,
                   handlers, focus, allowInteractions>>

SvgClick == SvgClickUpTo(MaxPending)

\* The fill-opacity of bar i after the promise of request e has resolved.
Resolved(e, i) ==
    IF i \notin e.bars THEN opacity[i]
    ELSE IF e.kind = "clear" THEN solidOpacity
    ELSE SyncedOpacity(bins[i], e.ids)

\* The promise of the k-th pending request resolves and its callback runs.
Resolve(k) ==
    /\ k \in 1..Len(pending)
    /\ opacity' = [i \in 1..Len(bins) |-> Resolved(pending[k], i)]
    /\ pending' = [i \in 1..(Len(pending) - 1) |-> IF i < k THEN pending[i] ELSE pending[i + 1]]
    /\ UNCHANGED <<events, landingPages, validationErrors, formattingModel>>
    /\ UNCHANGED <<options, visualState, validationMessage, bins, plan, warnings,
                   formattingSettings, svgHidden, isLandingPageOn, curve, markers,
                   handlers, focus, selection, allowInteractions>>

InteractionInit == Constructed(InteractionOptions, BOOLEAN)

\* The host calls update with one of the options of the session.
HostUpdates == \E o \in InteractionOptions : UpdateWith(o)

FocusMoves == \E target \in -1..5 : Focus(target)

ElementKeys == \E key \in Keys : ElementKeyDown(key)

BarKeys == \E key \in Keys, ctrlKey \in BOOLEAN : BarKeyDown(key, ctrlKey)

BarClicks == \E j \in 1..5, ctrlKey \in BOOLEAN : BarClick(j, ctrlKey)

Resolves == \E k \in 1..MaxPending : Resolve(k)

InteractionNext ==
    \/ HostUpdates
    \/ FocusMoves
    \/ ElementKeys
    \/ BarKeys
    \/ BarClicks
    \/ SvgClick
    \/ Resolves

Interaction == InteractionInit /\ [][InteractionNext]_vars

----------------------------------------------------------------------------
(* Requests in flight: several select and clear requests are pending at a
   time and their promises resolve in any order *)

\* The most requests that are pending at a time.
RacePending == 2

\* The options of the updates: three observations in two bars, and one
\* observation in one bar.
RaceOptions ==
    { o \in InteractionOptions : o.dataView.hasCategories /\ o.settings.binMode = "byCount" }

RaceInit == Constructed(RaceOptions, {TRUE})

RaceUpdates == \E o \in RaceOptions : UpdateWith(o)

RaceFocusMoves == \E target \in 0..2 : Focus(target)

\* Enter or Space on the focused bar.
RaceKeys == \E key \in {"Enter", " "}, ctrlKey \in BOOLEAN : BarKeyDownUpTo(RacePending, key, ctrlKey)

RaceBarClicks == \E j \in 1..2, ctrlKey \in BOOLEAN : BarClickUpTo(RacePending, j, ctrlKey)

RaceSvgClick == SvgClickUpTo(RacePending)

RaceResolves == \E k \in 1..RacePending : Resolve(k)

RaceNext ==
    \/ RaceUpdates
    \/ RaceFocusMoves
    \/ RaceKeys
    \/ RaceBarClicks
    \/ RaceSvgClick
    \/ RaceResolves

Race == RaceInit /\ [][RaceNext]_vars

----------------------------------------------------------------------------
(* BinnedChart.getFormattingModel: the host asks for the formatting model *)

\* getFormattingModel(): reading this.formattingSettings.bars fails when
\* formattingSettings has never been assigned; otherwise the service builds
\* the model.
getFormattingModel(settings) ==
    IF settings = Unpopulated THEN "TypeError" ELSE "FormattingModel"

GetFormattingModel ==
    /\ formattingModel' = getFormattingModel(formattingSettings)
    /\ UNCHANGED <<options, visualState, validationMessage, bins, plan, warnings,
                   formattingSettings, svgHidden, isLandingPageOn, curve, markers, opacity,
                   handlers, focus, selection, pending, allowInteractions,
                   events, landingPages, validationErrors>>

\* The options of the host over the life of a visual: every view without a
\* chart, and charts without rows, of one and of three observations.
LifecycleOptions ==
    { o \in SessionOptions :
        /\ o.settings.binMode = "byCount"
        /\ o.settings.valuesCalculation = "sum"
        /\ o.settings.tooltipCalculation = "sum" }

LifecycleInit == Constructed(LifecycleOptions, {TRUE})

HostCalls == \E o \in LifecycleOptions : UpdateWith(o)

LifecycleNext ==
    \/ HostCalls
    \/ GetFormattingModel

Lifecycle == LifecycleInit /\ [][LifecycleNext]_vars

----------------------------------------------------------------------------
(* The observations of the last update and what was rendered for them *)

Data == preBinnedData(options.dataView)

\* The update rendered the chart for at least one observation.
Charted == visualState = "Chart" /\ Len(Data) >= 1

Settings == options.settings

MinBinValue == d3min(Column(Data, "binValue"))
MaxBinValue == d3max(Column(Data, "binValue"))

\* max > min
Spread == Charted /\ FLt(MinBinValue, MaxBinValue)

\* How often observation i occurs in the member lists of all bins.
Occurrences(i) ==
    LET F[j \in 0..Len(bins)] ==
            IF j = 0 THEN 0
            ELSE F[j - 1] + Cardinality({k \in 1..Len(bins[j].members) : bins[j].members[k] = i})
    IN  F[Len(bins)]

\* Exact sum of an integer-valued field over a sequence of observations.
IntSum(members, field) ==
    LET F[j \in 0..Len(members)] ==
            IF j = 0 THEN 0 ELSE F[j - 1] + ToInt(Data[members[j]][field])
    IN  F[Len(members)]

AllObservations == [i \in 1..Len(Data) |-> i]

\* Exact sum of the members' weights over all bins.
BinsWeight ==
    LET F[j \in 0..Len(bins)] ==
            IF j = 0 THEN 0 ELSE F[j - 1] + IntSum(bins[j].members, "countValue")
    IN  F[Len(bins)]

----------------------------------------------------------------------------
(* Claims *)

\* C1: count conservation.  After an update that charts a non-empty input,
\* in every bin mode, each observation is a member of exactly one bin, every
\* member of a bin is an observation, and the members' weights add up to the
\* weights of all observations.
C1_CountConservation ==
    Charted =>
        /\ \A i \in 1..Len(Data) : Occurrences(i) = 1
        /\ \A j \in 1..Len(bins) : \A k \in 1..Len(bins[j].members) :
              bins[j].members[k] \in 1..Len(Data)
        /\ BinsWeight = IntSum(AllObservations, "countValue")

\* The requested count of byCount mode: max(1, n).
RequestedBins ==
    IF FLt(Settings.numberOfBins, One) THEN 1 ELSE ToInt(Settings.numberOfBins)

\* C2: exact bin count.  Whenever max > min, byCount mode produces exactly
\* max(1, n) bins and automatic mode (with a positive total frequency)
\* produces exactly the Sturges count of bins.
C2_ExactBinCount ==
    Spread =>
        /\ Settings.binMode = "byCount" => Len(bins) = RequestedBins
        /\ (Settings.binMode = "automatic" /\ IntSum(AllObservations, "countValue") > 0)
              => FromInt(Len(bins)) = plan.numBins

\* C3: degenerate domain.  When all observations have the same binValue, in
\* every bin mode there is exactly one bin, with finite bounds and strictly
\* positive width, whose members are all the observations.
C3_DegenerateDomain ==
    (Charted /\ FEq(MinBinValue, MaxBinValue)) =>
        /\ Len(bins) = 1
        /\ IsFiniteNum(bins[1].x0) /\ IsFiniteNum(bins[1].x1)
        /\ FLt(bins[1].x0, bins[1].x1)
        /\ bins[1].members = AllObservations

\* The user's bin size is a finite positive number and
\* domainRange / userBinSize > 1000.
BinSizeTooSmall ==
    /\ Settings.binMode = "bySize"
    /\ IsNumber(Settings.binSize) /\ IsFiniteNum(Settings.binSize) /\ FLt(Zero, Settings.binSize)
    /\ FLt(FromInt(1000), FDiv(FSub(MaxBinValue, MinBinValue), Settings.binSize))

\* C4: fallback trigger.  In bySize mode with a finite positive bin size and
\* domainRange / userBinSize > 1000, the plan has numBins = 10, exactly 10
\* bins are produced and the warning is emitted.
C4_FallbackTrigger ==
    (Charted /\ BinSizeTooSmall) =>
        /\ plan.numBins = FromInt(10)
        /\ Len(bins) = 10
        /\ warnings = 1

\* The bin size setting is not a finite positive number.
BinSizeInvalid ==
    /\ Settings.binMode = "bySize"
    /\ ~(IsNumber(Settings.binSize) /\ IsFiniteNum(Settings.binSize) /\ FLt(Zero, Settings.binSize))

\* C5: the bin-size warning is emitted by an update if and only if the mode
\* is bySize, the user's bin size is a finite positive number and
\* domainRange / userBinSize > 1000.  A bin size that is not a number, not
\* finite, zero or negative falls back to a plan of 10 bins without warning,
\* the other modes never warn, and in every case the bins are still computed
\* and bound to the bars.
C5_WarningIffTooSmall ==
    /\ warnings \in {0, 1}
    /\ warnings = 1 <=> (Charted /\ BinSizeTooSmall)
    /\ (Charted /\ BinSizeInvalid) => (plan.numBins = FromInt(10) /\ warnings = 0)
    /\ Charted => Len(bins) >= 1

C5_Witness ==
    /\ Charted /\ BinSizeTooSmall
    /\ warnings = 1
    /\ Len(bins) >= 1

\* Sturges' count for a total frequency n >= 0: max(1, ceil(log2(n) + 1)),
\* the least k >= 1 with 2^(k-1) >= n.
SturgesOf(n) == CHOOSE c \in 1..30 : 2 ^ (c - 1) >= n /\ (c = 1 \/ 2 ^ (c - 2) < n)

TotalFrequency == IntSum(AllObservations, "countValue")

\* C7: in automatic mode numBins = max(1, ceil(log2(N) + 1)) where N is the
\* sum of the observations' frequency measure (for N >= 0), whatever the
\* number of rows and the numberOfBins setting; N = 0 and N = 1 give 1.
C7_SturgesOnTotalFrequency ==
    (Charted /\ Settings.binMode = "automatic" /\ TotalFrequency >= 0) =>
        plan.numBins = FromInt(SturgesOf(TotalFrequency))

C7_Witness ==
    /\ Charted /\ Settings.binMode = "automatic"
    /\ TotalFrequency > 1
    /\ SturgesOf(TotalFrequency) # SturgesOf(Len(Data))
    /\ plan.numBins = FromInt(SturgesOf(TotalFrequency))

\* C8: half-open bins.  An observation whose binValue equals the lower bound
\* of a bin other than the first (an interior threshold) is a member of that
\* bin and not of the bin below; an observation whose binValue equals the
\* upper bound of the last bin is a member of the last bin.
C8_HalfOpenBins ==
    Charted =>
        \A i \in 1..Len(Data) :
            /\ \A j \in 2..Len(bins) :
                  FEq(Data[i].binValue, bins[j].x0) =>
                      /\ \E k \in 1..Len(bins[j].members) : bins[j].members[k] = i
                      /\ \A k \in 1..Len(bins[j - 1].members) : bins[j - 1].members[k] # i
            /\ FEq(Data[i].binValue, bins[Len(bins)].x1) =>
                  \E k \in 1..Len(bins[Len(bins)].members) : bins[Len(bins)].members[k] = i

C8_Witness ==
    /\ Charted
    /\ \E i \in 1..Len(Data) : \E j \in 2..Len(bins) :
          /\ FEq(Data[i].binValue, bins[j].x0)
          /\ \E k \in 1..Len(bins[j].members) : bins[j].members[k] = i
    /\ \E i \in 1..Len(Data) :
          /\ FEq(Data[i].binValue, bins[Len(bins)].x1)
          /\ \E k \in 1..Len(bins[Len(bins)].members) : bins[Len(bins)].members[k] = i

\* The user's bin size is accepted: finite, positive and
\* domainRange / userBinSize <= 1000.
BinSizeAccepted ==
    /\ Settings.binMode = "bySize"
    /\ IsNumber(Settings.binSize) /\ IsFiniteNum(Settings.binSize) /\ FLt(Zero, Settings.binSize)
    /\ FLe(FDiv(FSub(MaxBinValue, MinBinValue), Settings.binSize), FromInt(1000))

\* The i-th multiple of the user's bin size above alignedMin, as a number.
Multiple(i) == FAdd(plan.alignedMin, FMul(FromInt(i), Settings.binSize))

\* Number of user bin sizes that fit the aligned domain.
FittingWidths ==
    FCeil(FDiv(FSub(plan.alignedMax, plan.alignedMin), Settings.binSize))

\* The multiples of the user's bin size over the aligned domain are distinct
\* numbers (the bin size is not below the spacing of the numbers there).
DistinctMultiples ==
    /\ IsFiniteNum(FittingWidths) /\ FLe(One, FittingWidths)
    /\ \A i \in 0..(ToInt(FittingWidths) - 1) : FLt(Multiple(i), Multiple(i + 1))
    /\ FLt(Multiple(ToInt(FittingWidths) - 1),
           FAdd(Multiple(ToInt(FittingWidths) - 1), Settings.binSize))

\* C6 as claimed: in bySize mode with an accepted width and max > min, every
\* bin has width exactly userBinSize and the number of bins is
\* (alignedMax - alignedMin) / userBinSize.
C6_ExactUserWidth ==
    (Spread /\ BinSizeAccepted) =>
        /\ \A j \in 1..Len(bins) : FSub(bins[j].x1, bins[j].x0) = Settings.binSize
        /\ FromInt(Len(bins)) = FDiv(FSub(plan.alignedMax, plan.alignedMin), Settings.binSize)

\* C6 amended: in bySize mode with an accepted width and max > min, binSize
\* is never recomputed after alignment; while the multiples of userBinSize
\* over the aligned domain are distinct numbers, the bounds of bin j are the
\* numbers alignedMin + (j-1) * userBinSize and alignedMin + j * userBinSize
\* (the last upper bound is the last lower bound + userBinSize), and the
\* number of bins is ceil((alignedMax - alignedMin) / userBinSize).
C6_UserWidthUpToRounding ==
    (Spread /\ BinSizeAccepted) =>
        /\ plan.binSize = Settings.binSize
        /\ DistinctMultiples =>
              /\ FromInt(Len(bins)) = FittingWidths
              /\ \A j \in 1..Len(bins) :
                    /\ bins[j].x0 = Multiple(j - 1)
                    /\ j < Len(bins) => bins[j].x1 = Multiple(j)
                    /\ j = Len(bins) => bins[j].x1 = FAdd(bins[j].x0, Settings.binSize)

\* An accepted width whose bins do not all measure exactly userBinSize.
C6_Witness ==
    /\ Spread /\ BinSizeAccepted /\ DistinctMultiples
    /\ plan.binSize = Settings.binSize
    /\ Len(bins) >= 2
    /\ \E j \in 1..Len(bins) : FSub(bins[j].x1, bins[j].x0) # Settings.binSize
    /\ \A j \in 1..Len(bins) : bins[j].x0 = Multiple(j - 1)

\* C9: sum-reducer identity.  With the value calculation set to sum, the sum
\* over all bins of aggregatedValue equals the sum of measureValue over all
\* observations, in every bin mode.
C9_SumReducerIdentity ==
    (Charted /\ Settings.valuesCalculation = "sum") =>
        d3sum([j \in 1..Len(bins) |-> bins[j].aggregatedValue])
            = d3sum(Column(Data, "measureValue"))

\* Exact sum of field * weight over a sequence of observations.
IntWeightedSum(members, field) ==
    LET F[j \in 0..Len(members)] ==
            IF j = 0 THEN 0
            ELSE F[j - 1] + ToInt(Data[members[j]][field]) * ToInt(Data[members[j]].countValue)
    IN  F[Len(members)]

\* sum(field * weight) / sum(weight) over the members, as a number.
WeightedMean(members, field) ==
    FDiv(FromInt(IntWeightedSum(members, field)), FromInt(IntSum(members, "countValue")))

\* C10 as claimed: with the weightedAvg calculation every bin's aggregate is
\* sum(field * weight) / sum(weight) whenever sum(weight) is not 0 and is 0
\* when sum(weight) = 0, for the value and for the tooltip.
C10_WeightedAvgNonZero ==
    Charted => \A j \in 1..Len(bins) :
        LET W == IntSum(bins[j].members, "countValue")
        IN  /\ Settings.valuesCalculation = "weightedAvg" =>
                  bins[j].aggregatedValue =
                      IF W # 0 THEN WeightedMean(bins[j].members, "measureValue") ELSE Zero
            /\ (options.dataView.hasTooltips /\ Settings.tooltipCalculation = "weightedAvg") =>
                  bins[j].aggregatedTooltipValue =
                      IF W # 0 THEN WeightedMean(bins[j].members, "tooltipValue") ELSE Zero

\* C10 amended: with the weightedAvg calculation every bin's aggregate is
\* sum(field * weight) / sum(weight) whenever sum(weight) > 0 and is 0
\* whenever sum(weight) <= 0 (the empty bin included), for the value and for
\* the tooltip.
C10_WeightedAvgPositive ==
    Charted => \A j \in 1..Len(bins) :
        LET W == IntSum(bins[j].members, "countValue")
        IN  /\ Settings.valuesCalculation = "weightedAvg" =>
                  bins[j].aggregatedValue =
                      IF W > 0 THEN WeightedMean(bins[j].members, "measureValue") ELSE Zero
            /\ (options.dataView.hasTooltips /\ Settings.tooltipCalculation = "weightedAvg") =>
                  bins[j].aggregatedTooltipValue =
                      IF W > 0 THEN WeightedMean(bins[j].members, "tooltipValue") ELSE Zero

\* A chart with weighted averages for value and tooltip that has a bin of
\* positive weight with several members, an empty bin and a bin of negative
\* weight.
C10_Witness ==
    /\ Charted /\ options.dataView.hasTooltips
    /\ Settings.valuesCalculation = "weightedAvg" /\ Settings.tooltipCalculation = "weightedAvg"
    /\ \E j \in 1..Len(bins) :
          /\ Len(bins[j].members) >= 2 /\ IntSum(bins[j].members, "countValue") > 0
          /\ bins[j].aggregatedValue = WeightedMean(bins[j].members, "measureValue")
          /\ bins[j].aggregatedTooltipValue = WeightedMean(bins[j].members, "tooltipValue")
    /\ \E j \in 1..Len(bins) : bins[j].members = << >> /\ bins[j].aggregatedValue = Zero
    /\ \E j \in 1..Len(bins) :
          /\ IntSum(bins[j].members, "countValue") < 0
          /\ bins[j].aggregatedValue = Zero

----------------------------------------------------------------------------
\* The members of a bin all have the same weight.
EqualWeights(members) ==
    \A k, l \in 1..Len(members) :
        Data[members[k]].countValue = Data[members[l]].countValue

\* The unweighted arithmetic mean of a field over the members, as a number.
UnweightedMean(members, field) ==
    FDiv(FromInt(IntSum(members, field)), FromInt(Len(members)))

\* C11 as claimed: with the weightedAvg calculation, a non-empty bin whose
\* members all have the same weight w, whatever w is, has the unweighted
\* arithmetic mean of its members' measureValue as aggregate.
C11_EqualWeightsMean ==
    (Charted /\ Settings.valuesCalculation = "weightedAvg") =>
        \A j \in 1..Len(bins) :
            (bins[j].members # << >> /\ EqualWeights(bins[j].members)) =>
                bins[j].aggregatedValue = UnweightedMean(bins[j].members, "measureValue")

\* C11 amended: with the weightedAvg calculation, a non-empty bin whose
\* members all have the same weight w has the unweighted arithmetic mean of
\* its members' measureValue as aggregate when w > 0, and 0 when w <= 0.
C11_EqualPositiveWeightsMean ==
    (Charted /\ Settings.valuesCalculation = "weightedAvg") =>
        \A j \in 1..Len(bins) :
            (bins[j].members # << >> /\ EqualWeights(bins[j].members)) =>
                bins[j].aggregatedValue =
                    IF ToInt(Data[bins[j].members[1]].countValue) > 0
                    THEN UnweightedMean(bins[j].members, "measureValue")
                    ELSE Zero

\* A chart of weighted averages with a bin of two members of weight 2 whose
\* aggregate is their mean, and a bin of one member of weight 0 or less
\* whose aggregate is 0 and not the member's value.
C11_Witness ==
    /\ Charted /\ Settings.valuesCalculation = "weightedAvg"
    /\ \E j \in 1..Len(bins) :
          /\ Len(bins[j].members) >= 2 /\ EqualWeights(bins[j].members)
          /\ ToInt(Data[bins[j].members[1]].countValue) = 2
          /\ bins[j].aggregatedValue = UnweightedMean(bins[j].members, "measureValue")
    /\ \E j \in 1..Len(bins) :
          /\ Len(bins[j].members) = 1
          /\ ToInt(Data[bins[j].members[1]].countValue) <= 0
          /\ bins[j].aggregatedValue = Zero
          /\ Data[bins[j].members[1]].measureValue # Zero

----------------------------------------------------------------------------
\* The thresholds d3.bin keeps: those of d3.range inside the domain of the
\* histogram, above its lower end.
KeptThresholds ==
    LET Inside(t) == FLt(plan.alignedMin, t) /\ FLe(t, plan.alignedMaxCorrected)
    IN  SelectSeq(d3range(plan.alignedMin, plan.alignedMax, plan.binSize), Inside)

\* The members' values of a field.
MemberValues(members, field) == [k \in 1..Len(members) |-> Data[members[k]][field]]

\* v is the least (greatest, for dir = "maximum") of the values.
Extreme(v, values, dir) ==
    /\ \E k \in 1..Len(values) : values[k] = v
    /\ \A k \in 1..Len(values) :
          IF dir = "minimum" THEN FLe(v, values[k]) ELSE FLe(values[k], v)

\* C12: empty bins are kept.  The bins of a chart are all the intervals
\* between consecutive kept thresholds, in order, whether or not they have
\* members; a bin without members has aggregate 0 under each calculation,
\* for the value and for the tooltip; with minimum (maximum) a bin with
\* members has the least (greatest) value of its members as aggregate.
C12_EmptyBinsKept ==
    Charted =>
        /\ Len(bins) = Len(KeptThresholds) + 1
        /\ \A j \in 1..Len(bins) :
              /\ bins[j].x0 = IF j = 1 THEN plan.alignedMin ELSE KeptThresholds[j - 1]
              /\ bins[j].x1 = IF j = Len(bins) THEN plan.alignedMaxCorrected
                              ELSE KeptThresholds[j]
              /\ bins[j].members = << >> =>
                    /\ bins[j].aggregatedValue = Zero
                    /\ options.dataView.hasTooltips => bins[j].aggregatedTooltipValue = Zero
              /\ (bins[j].members # << >> /\ Settings.valuesCalculation \in {"minimum", "maximum"}) =>
                    Extreme(bins[j].aggregatedValue,
                            MemberValues(bins[j].members, "measureValue"),
                            Settings.valuesCalculation)
              /\ (bins[j].members # << >> /\ options.dataView.hasTooltips
                    /\ Settings.tooltipCalculation \in {"minimum", "maximum"}) =>
                    Extreme(bins[j].aggregatedTooltipValue,
                            MemberValues(bins[j].members, "tooltipValue"),
                            Settings.tooltipCalculation)

\* A chart with the minimum of the value and the maximum of the tooltip that
\* has a bin without members, with aggregates 0, between two bins with
\* members, one of them with two members of different values.
C12_Witness ==
    /\ Charted /\ options.dataView.hasTooltips
    /\ Settings.valuesCalculation = "minimum" /\ Settings.tooltipCalculation = "maximum"
    /\ \E h, j, l \in 1..Len(bins) :
          /\ h < j /\ j < l
          /\ bins[h].members # << >> /\ bins[l].members # << >>
          /\ bins[j].members = << >>
          /\ bins[j].aggregatedValue = Zero /\ bins[j].aggregatedTooltipValue = Zero
    /\ \E j \in 1..Len(bins) :
          /\ Len(bins[j].members) = 2
          /\ FLt(bins[j].aggregatedValue, Data[bins[j].members[2]].measureValue)
          /\ bins[j].aggregatedValue = Data[bins[j].members[1]].measureValue

----------------------------------------------------------------------------
\* C19: the aligned domain covers the data.  In every mode, when max > min,
\* the lower bound of the first bin is at most the least binValue and the
\* upper bound of the last bin is at least the greatest binValue.
C19_DomainCoversData ==
    Spread =>
        /\ FLe(bins[1].x0, MinBinValue)
        /\ FLe(MaxBinValue, bins[Len(bins)].x1)

\* C20: the size of the plan.  In every mode, when max > min, alignedMax -
\* alignedMin equals numBins * binSize for the numBins and binSize of the
\* plan.
C20_PlanSize ==
    Spread =>
        FSub(plan.alignedMax, plan.alignedMin) = FMul(plan.numBins, plan.binSize)

----------------------------------------------------------------------------
\* The roles of the data view of the last update.
View == options.dataView

NoRole == ~View.hasCategories /\ ~View.hasValues /\ ~View.hasCountMeasure

AllRoles ==
    /\ View.hasCategories /\ View.isCategoryNumeric
    /\ View.hasValues /\ View.hasCountMeasure

\* C16: each update puts the visual in exactly one of three states.  Landing
\* if and only if none of the three required roles is present; Chart if and
\* only if all three are present and the field to bin is numeric; otherwise
\* Error, with the message for the field to bin first, then the value, then
\* the frequency measure.  Only the rendering path of that state has run:
\* the landing page with the svg hidden, or the error message without bars,
\* or the chart without message.
C16_OneStatePerUpdate ==
    visualState # "Constructed" =>
        /\ visualState \in {"Landing", "Error", "Chart"}
        /\ visualState = "Landing" <=> NoRole
        /\ visualState = "Chart" <=> AllRoles
        /\ visualState = "Error" =>
              validationMessage =
                  IF ~View.hasCategories \/ ~View.isCategoryNumeric
                  THEN "'Field to bin' must be a numeric field."
                  ELSE IF ~View.hasValues
                  THEN "'Value' must be a numeric measure."
                  ELSE "'Frequency measure' must be a numeric measure."
        /\ visualState = "Landing" =>
              svgHidden /\ isLandingPageOn /\ validationMessage = "" /\ bins = << >>
        /\ visualState = "Error" =>
              ~svgHidden /\ ~isLandingPageOn /\ bins = << >>
        /\ visualState = "Chart" =>
              /\ ~svgHidden /\ ~isLandingPageOn /\ validationMessage = ""
              /\ Len(Data) >= 1 => bins # << >>

\* An update in the Error state for a data view whose field to bin is not
\* numeric and whose value is missing: the message is that of the field to
\* bin.
C16_Witness ==
    /\ visualState = "Error"
    /\ View.hasCategories /\ ~View.isCategoryNumeric /\ ~View.hasValues
    /\ validationMessage = "'Field to bin' must be a numeric field."
    /\ bins = << >> /\ ~svgHidden

----------------------------------------------------------------------------
\* The settings that decide the bins: bin mode and its parameters.
BinSettingsOf(settings) == <<settings.binMode, settings.numberOfBins, settings.binSize>>

\* An update that rendered the chart is followed by one that renders the
\* chart for the same rows with the same bin settings.
SameDataAndBins ==
    /\ Charted /\ Charted'
    /\ options'.dataView.rows = options.dataView.rows
    /\ BinSettingsOf(options'.settings) = BinSettingsOf(options.settings)

\* C13: the primary and the tooltip reduction are independent.  For the same
\* data and bin settings, an update that changes the tooltip reducer, or adds
\* or removes the tooltip field, changes the members and the aggregated value
\* of no bin; an update that changes the value reducer changes the aggregated
\* tooltip value of no bin; and without a tooltip field no bin has an
\* aggregated tooltip value.
C13_IndependentReductions ==
    [][ /\ (Charted' /\ ~options'.dataView.hasTooltips) =>
               \A i \in 1..Len(bins') : bins'[i].aggregatedTooltipValue = Null
        /\ (Charted' /\ options'.dataView.hasTooltips) =>
               \A i \in 1..Len(bins') : bins'[i].aggregatedTooltipValue # Null
        /\ (SameDataAndBins
              /\ options'.settings.valuesCalculation = options.settings.valuesCalculation) =>
               /\ Len(bins') = Len(bins)
               /\ \A i \in 1..Len(bins) :
                      /\ bins'[i].members = bins[i].members
                      /\ bins'[i].aggregatedValue = bins[i].aggregatedValue
        /\ (SameDataAndBins
              /\ options'.dataView.hasTooltips = options.dataView.hasTooltips
              /\ options'.settings.tooltipCalculation = options.settings.tooltipCalculation) =>
               /\ Len(bins') = Len(bins)
               /\ \A i \in 1..Len(bins) :
                      bins'[i].aggregatedTooltipValue = bins[i].aggregatedTooltipValue
      ]_vars

\* A chart with a tooltip field whose two reducers differ, and a bin on which
\* they give different results for both fields: an update that changed only
\* one of the reducers has something to change.
C13_Witness ==
    /\ Charted /\ View.hasTooltips
    /\ Settings.valuesCalculation # Settings.tooltipCalculation
    /\ \E i \in 1..Len(bins) :
          /\ Len(bins[i].members) >= 2
          /\ bins[i].aggregatedValue =
                 Aggregate(Data, bins[i].members, Settings.valuesCalculation, "measureValue")
          /\ bins[i].aggregatedValue #
                 Aggregate(Data, bins[i].members, Settings.tooltipCalculation, "measureValue")
          /\ bins[i].aggregatedTooltipValue =
                 Aggregate(Data, bins[i].members, Settings.tooltipCalculation, "tooltipValue")
          /\ bins[i].aggregatedTooltipValue #
                 Aggregate(Data, bins[i].members, Settings.valuesCalculation, "tooltipValue")

----------------------------------------------------------------------------
\* The sample standard deviation of binValue is > 0: at least two
\* observations, not all equal.
PositiveDeviation == Len(Data) >= 2 /\ FLt(MinBinValue, MaxBinValue)

\* C14: curve and markers are there only when the curve is requested and the
\* standard deviation of binValue is > 0.  When all binValues are equal, or
\* there is one observation, the update renders bars, displays no curve path
\* and no markers, and does not enter the Error state.
C14_CurveOnlyWithDeviation ==
    /\ (curve \/ markers # << >>) =>
           Charted /\ Settings.showNormalCurve /\ PositiveDeviation
    /\ (Charted /\ ~PositiveDeviation) =>
           /\ bins # << >>
           /\ ~curve
           /\ markers = << >>
           /\ visualState # "Error"

----------------------------------------------------------------------------
\* C15: whatever updates came before, the bins of an update (count,
\* boundaries, members, aggregates) and its warning are those the same update
\* produces on a freshly constructed visual.
C15_Stateless ==
    visualState # "Constructed" =>
        IF AllRoles /\ Len(Data) >= 1
        THEN /\ bins = renderChart(options.dataView, options.settings).bins
             /\ warnings = renderChart(options.dataView, options.settings).warnings
        ELSE bins = << >> /\ warnings = 0

\* A chart that came after an update with other settings and other data: the
\* settings of the chart do not request the curve, and the markers of the
\* earlier update, as many as its bins, are still in their container.
C15_Witness ==
    /\ Charted
    /\ ~Settings.showNormalCurve
    /\ markers # << >> /\ Len(markers) # Len(bins)
    /\ bins = renderChart(options.dataView, options.settings).bins

----------------------------------------------------------------------------
\* The last of the pending requests.
LastRequest(p) == p[Len(p)]

\* C17: with interactions allowed and n >= 1 bars, ArrowRight on bar i moves
\* the focus to bar (i + 1) mod n, that is to the next bar, or from the last
\* bar to the first; ArrowLeft moves it to bar (i - 1 + n) mod n, that is to
\* the bar before, or from the first bar to the last; the focused bar stays
\* one of the n bars.  Enter on the root element focuses the first bar.
C17_KeyboardNavigation ==
    [][ /\ \A ctrlKey \in BOOLEAN :
              (allowInteractions /\ BarKeyDown("ArrowRight", ctrlKey)) =>
                  /\ focus' = (IF focus = Len(bins) THEN 1 ELSE focus + 1)
                  /\ focus' \in 1..Len(bins')
        /\ \A ctrlKey \in BOOLEAN :
              (allowInteractions /\ BarKeyDown("ArrowLeft", ctrlKey)) =>
                  /\ focus' = (IF focus = 1 THEN Len(bins) ELSE focus - 1)
                  /\ focus' \in 1..Len(bins')
        /\ (allowInteractions /\ Len(bins) >= 1 /\ ElementKeyDown("Enter")) => focus' = 1
        /\ focus' <= Len(bins')
      ]_vars

\* Interactions are allowed and the focus is on the last of at least three
\* bars: where ArrowLeft on the first bar, or ArrowRight on the bar before,
\* takes it, and from where ArrowRight wraps to the first.
C17_Witness ==
    /\ allowInteractions /\ handlers
    /\ Len(bins) >= 3
    /\ focus = Len(bins)

\* C18: with interactions allowed, a click on a bar requests the selection of
\* the selection ids of the members of its bin, as a multi-selection if and
\* only if Ctrl is held, and the click handler of the background does not
\* run; a click on the background clears the selection, and when its promise
\* resolves every bar of the chart that was clicked is shown at solid
\* opacity.  With interactions not allowed, neither click changes the
\* selection.
C18_Clicks ==
    [][ /\ \A j \in 1..Len(bins), ctrlKey \in BOOLEAN :
              (allowInteractions /\ BarClick(j, ctrlKey)) =>
                  /\ Len(pending') = Len(pending) + 1
                  /\ LastRequest(pending').kind = "select"
                  /\ LastRequest(pending').request =
                         { Data[bins[j].members[m]].selectionId : m \in 1..Len(bins[j].members) }
                  /\ LastRequest(pending').multi = ctrlKey
                  /\ selection' = LastRequest(pending').ids
        /\ (allowInteractions /\ handlers /\ SvgClick) =>
                  /\ selection' = {}
                  /\ Len(pending') = Len(pending) + 1
                  /\ LastRequest(pending').kind = "clear"
                  /\ LastRequest(pending').bars = 1..Len(bins)
        /\ \A k \in 1..Len(pending) :
              (Resolve(k) /\ pending[k].kind = "clear") =>
                  \A i \in pending[k].bars : opacity'[i] = solidOpacity
        /\ (~allowInteractions /\ (SvgClick \/ \E j \in 1..Len(bins), ctrlKey \in BOOLEAN :
                                                   BarClick(j, ctrlKey))) =>
                  selection' = selection /\ pending' = pending
      ]_vars

\* Interactions are allowed, the background was clicked while a selection
\* dimmed a bar, and the promise of the clear has not resolved: the selection
\* is empty, the bar is still dimmed, and the request is there for every bar.
C18_Witness ==
    /\ allowInteractions
    /\ Len(bins) >= 2
    /\ selection = {}
    /\ pending # << >>
    /\ LastRequest(pending).kind = "clear"
    /\ LastRequest(pending).bars = 1..Len(bins)
    /\ \E i \in 1..Len(bins) : opacity[i] = transparentOpacity

----------------------------------------------------------------------------
\* x / w is an integer, for numbers x and w # 0 (exact arithmetic).
ExactMultiple(x, w) ==
    /\ IsNumber(x) /\ IsFiniteNum(x) /\ IsNumber(w) /\ IsFiniteNum(w) /\ w.m # 0
    /\ IF x.e >= w.e
       THEN (Abs(x.m) * 2 ^ (x.e - w.e)) % Abs(w.m) = 0
       ELSE Abs(x.m) % (Abs(w.m) * 2 ^ (w.e - x.e)) = 0

\* The integer part of x / w, for numbers x and w > 0 (exact arithmetic).
QuotientFloor(x, w) ==
    IF x.e >= w.e
    THEN (x.m * 2 ^ (x.e - w.e)) \div w.m
    ELSE x.m \div (w.m * 2 ^ (w.e - x.e))

\* x is the number nearest to k * w for an integer k.
NearestToMultiple(x, w) ==
    /\ IsNumber(x) /\ IsFiniteNum(x) /\ IsNumber(w) /\ IsFiniteNum(w) /\ w.m > 0
    /\ \E d \in {-1, 0, 1} : FMul(FromInt(QuotientFloor(x, w) + d), w) = x

\* The bin width the domain is aligned to: the width of the user in bySize
\* mode when it is accepted, otherwise domainRange / numBins.
PlannedWidth ==
    IF BinSizeAccepted THEN plan.binSize
    ELSE FDiv(FSub(MaxBinValue, MinBinValue), plan.numBins)

\* C21 as claimed: in every mode, when max > min, the lower bound of the first
\* bin and the upper bound of the last bin are exact integer multiples of the
\* width of the bins produced.
C21_EndsExactMultiples ==
    Spread =>
        /\ ExactMultiple(bins[1].x0, plan.binSize)
        /\ ExactMultiple(bins[Len(bins)].x1, plan.binSize)

\* C21 amended: when max > min and the planned width is a positive number,
\* the first bin starts at alignedMin, and alignedMin and alignedMax are the
\* numbers nearest to an integer multiple of the planned width: the user's
\* width in bySize mode when it is accepted, and domainRange / numBins
\* otherwise, which in byCount and automatic mode is not the width of the
\* bins produced, since that is recomputed after the alignment.
C21_EndsMultiplesOfPlannedWidth ==
    (Spread /\ IsFiniteNum(PlannedWidth) /\ FLt(Zero, PlannedWidth)) =>
        /\ bins[1].x0 = plan.alignedMin
        /\ NearestToMultiple(plan.alignedMin, PlannedWidth)
        /\ NearestToMultiple(plan.alignedMax, PlannedWidth)
        /\ BinSizeAccepted => plan.binSize = Settings.binSize

\* A byCount plan whose ends are multiples of domainRange / numBins and not
\* of the recomputed width of its bins.
C21_Witness ==
    /\ Spread /\ Settings.binMode = "byCount"
    /\ IsFiniteNum(PlannedWidth) /\ FLt(Zero, PlannedWidth)
    /\ ExactMultiple(plan.alignedMin, PlannedWidth)
    /\ ExactMultiple(plan.alignedMax, PlannedWidth)
    /\ bins[1].x0 = plan.alignedMin
    /\ bins[Len(bins)].x1 = plan.alignedMax
    /\ ~ExactMultiple(bins[1].x0, plan.binSize)
    /\ ~ExactMultiple(bins[Len(bins)].x1, plan.binSize)

----------------------------------------------------------------------------
\* alignedMin + i * binSize, as the program computes it.
Edge(i) == FAdd(plan.alignedMin, FMul(FromInt(i), plan.binSize))

\* The plan is made of numbers (in automatic mode a negative total frequency
\* makes numBins, and with it every bound, NaN).
FinitePlan == IsFiniteNum(plan.numBins) /\ IsFiniteNum(plan.binSize)

\* The thresholds handed to d3.bin.
RangeThresholds == d3range(plan.alignedMin, plan.alignedMax, plan.binSize)

----------------------------------------------------------------------------
\* What the update would have rendered with binMode = automatic.
AsAutomatic == renderChart(options.dataView, [Settings EXCEPT !.binMode = "automatic"])

\* C23: a binMode that is not recognised yields, for the same data, the bin
\* plan of binMode = automatic: the same bin count, bin width and bin
\* boundaries.
C23_UnknownModeIsAutomatic ==
    (Charted /\ Settings.binMode \notin {"automatic", "byCount", "bySize"}) =>
        /\ plan.numBins = AsAutomatic.plan.numBins
        /\ plan.binSize = AsAutomatic.plan.binSize
        /\ Len(bins) = Len(AsAutomatic.bins)
        /\ \A j \in 1..Len(bins) :
              /\ bins[j].x0 = AsAutomatic.bins[j].x0
              /\ bins[j].x1 = AsAutomatic.bins[j].x1

----------------------------------------------------------------------------
\* How often a notification or call occurs in the events of the last update.
Times(e) == Cardinality({i \in 1..Len(events) : events[i] = e})

\* C24: every update notifies the host with renderingStarted before anything
\* else and with renderingFinished last, once each, in the Landing, Error
\* and Chart states and when renderChart returns early because no row has
\* numbers.
C24_RenderingEvents ==
    visualState # "Constructed" =>
        /\ Len(events) >= 3
        /\ events[1] = "renderingStarted"
        /\ events[Len(events)] = "renderingFinished"
        /\ Times("renderingStarted") = 1
        /\ Times("renderingFinished") = 1

\* A Chart update that returned early: no row has numbers, the visual was
\* cleared, and renderingFinished came after that.
C24_Witness ==
    /\ visualState = "Chart"
    /\ Data = << >>
    /\ bins = << >>
    /\ events[Len(events) - 1] = "clearVisual"
    /\ events[Len(events)] = "renderingFinished"

\* C25: after any sequence of updates at most one landing-page element is
\* attached to the root element, and one is attached if and only if the last
\* update ended in the Landing state, which is when isLandingPageOn is true.
C25_OneLandingPage ==
    /\ landingPages \in {0, 1}
    /\ landingPages = 1 <=> isLandingPageOn
    /\ isLandingPageOn <=> visualState = "Landing"

\* The landing page is shown after an earlier update had rendered a chart.
C25_Witness ==
    /\ visualState = "Landing"
    /\ formattingSettings # Unpopulated
    /\ landingPages = 1
    /\ isLandingPageOn

\* C26: after any sequence of updates the svg contains at most one
\* validation-error text, and contains one if and only if the last update
\* ended in the Error state; the text is the message of that update.
C26_OneValidationError ==
    /\ Len(validationErrors) <= 1
    /\ Len(validationErrors) = 1 <=> visualState = "Error"
    /\ visualState = "Error" =>
          /\ validationErrors = << validationMessage >>
          /\ validationErrors[1] =
                 IF ~View.hasCategories \/ ~View.isCategoryNumeric
                 THEN "'Field to bin' must be a numeric field."
                 ELSE IF ~View.hasValues
                 THEN "'Value' must be a numeric measure."
                 ELSE "'Frequency measure' must be a numeric measure."

\* The Error state after an earlier update had rendered a chart, with the
\* message of the missing frequency measure alone in the svg.
C26_Witness ==
    /\ visualState = "Error"
    /\ formattingSettings # Unpopulated
    /\ validationErrors = << "'Frequency measure' must be a numeric measure." >>

----------------------------------------------------------------------------
\* C27: after an update that renders the chart with showNormalCurve off,
\* neither the path of the curve nor a marker is displayed, whatever earlier
\* updates displayed; markers are there only while the curve is displayed,
\* and then there is one per bin, at the midpoint of the bin.
C27_NoCurveWhenOff ==
    /\ (Charted /\ ~Settings.showNormalCurve) => (~curve /\ markers = << >>)
    /\ markers # << >> =>
          /\ curve
          /\ Len(markers) = Len(bins)
          /\ \A i \in 1..Len(bins) : markers[i] = Midpoint(bins[i])

----------------------------------------------------------------------------
\* C28: getFormattingModel can be called after any sequence of calls that
\* follows construction, also before the first update and after updates
\* that only reached the Landing or Error state or returned early, and
\* returns a formatting model: it never fails on a settings model that has
\* not been populated.
C28_FormattingModelAlways ==
    formattingModel # "TypeError"

----------------------------------------------------------------------------
\* C29: with interactions allowed, after Escape on a focused bar has cleared
\* the selection, the focus is on the root element and, as after a click on
\* the background, every bar is displayed at solid opacity: with no request
\* pending, no bar stays dimmed while the selection is empty.
C29_EscapeClears ==
    [][ \A ctrlKey \in BOOLEAN :
            (allowInteractions /\ BarKeyDown("Escape", ctrlKey)) =>
                /\ focus' = Root
                /\ selection' = {}
                /\ pending' = << >> =>
                       \A i \in 1..Len(bins') : opacity'[i] = solidOpacity
      ]_vars

----------------------------------------------------------------------------
\* C30: bar opacity agrees with the selection: once every pending select or
\* clear request has resolved, in whatever order, every displayed bar is solid
\* if the current selection is empty or the bar's bin holds a selected id, and
\* dimmed otherwise.
C30_OpacityAgreesWithSelection ==
    pending = << >> =>
        \A i \in 1..Len(bins) : opacity[i] = SyncedOpacity(bins[i], selection)

====
